---- MODULE Spec2Model ----
(***************************************************************************)
(* Model of src/main.py: the TableExtractor add-on.                        *)
(*                                                                         *)
(* A run of main() is a sequence of steps separated by the calls to the    *)
(* collaborators (the host platform's charge_credits, the analyzer's       *)
(* begin_analyze_document_from_url / poller.result, the file system).      *)
(* Python values that may be None (a key absent from self.data, the        *)
(* document count of an empty selection) are modelled as sequences of      *)
(* length 0 (None) or 1 (a value).                                         *)
(***************************************************************************)
EXTENDS Integers, Sequences, FiniteSets, TLC

VARIABLES
    data,            \* self.data: the add-on's configuration
    documents,       \* what self.get_documents() yields, in listing order
    document_count,  \* what self.get_document_count() returns (None or a count)
    org_id,          \* self.org_id is set
    pc,              \* position of the run in main()
    message,         \* last text handed to self.set_message ("" if none)
    fault,           \* the uncaught exception that ended the run ("" if none)
    charges,         \* calls made to self.charge_credits, with their outcome
    calls,           \* calls made to the analyzer, with their outcome
    docIdx,          \* index in documents of the document being processed
    page_number,     \* loop variable of the page loop
    table_data,      \* the per-document accumulator of main()
    jsonFiles,       \* contents of tables-{id}.json, by document id
    csvFiles,        \* rows of tables-{id}.csv, by document id
    csvLog,          \* history: data rows handed to writerows, by document id
    run,             \* number of the current run
    cost,            \* last value calculate_cost returned
    csv_data         \* last value convert_to_csv returned

vars == <<data, documents, document_count, org_id, pc, message, fault, charges,
          calls, docIdx, page_number, table_data, jsonFiles, csvFiles, csvLog,
          run, cost, csv_data>>

(* ------------------------------ bounds --------------------------------- *)

MaxDocs == 2
MaxPageCount == 2
MaxPage == 2
MaxRuns == 2
MaxTables == 2
MaxCells == 2

(* ------------------------- Python values ------------------------------- *)

None == <<>>
Some(v) == <<v>>
Opt(S) == {None} \cup {Some(v) : v \in S}

\* dict.get(key, default)
Get(d, key, default) == IF d[key] = None THEN default ELSE d[key][1]

RECURSIVE SumSeq(_)
SumSeq(s) == IF s = <<>> THEN 0 ELSE Head(s) + SumSeq(Tail(s))

RECURSIVE Flatten(_)
Flatten(ss) == IF ss = <<>> THEN <<>> ELSE Head(ss) \o Flatten(Tail(ss))

Min(a, b) == IF a <= b THEN a ELSE b

IsPrefix(s, t) == Len(s) <= Len(t) /\ SubSeq(t, 1, Len(s)) = s

SeqsUpTo(S, n) == UNION {[1..k -> S] : k \in 0..n}

(* ------------------------------ inputs --------------------------------- *)

DocIds == {"a", "b"}
Documents == [id : DocIds, page_count : 0..MaxPageCount]
Formats == {"json", "csv"}
PageValues == 0..MaxPage
Configs == [start_page : Opt(PageValues), end_page : Opt(PageValues),
            output_format : Opt(Formats)]

\* what the host platform hands to one run of the add-on
RunInputs ==
    [data : Configs,
     documents : SeqsUpTo(Documents, MaxDocs),
     selected : BOOLEAN,
     org_id : BOOLEAN]

(* --------------------------- calculate_cost ---------------------------- *)

CreditsPerPage == 7

\* the branches of the if/else exchanged
last_page_exchanged(end_page, doc) ==
    IF end_page <= doc.page_count THEN doc.page_count ELSE end_page

\* the if/else on end_page and doc.page_count
last_page(end_page, doc) ==
    IF end_page <= doc.page_count THEN end_page ELSE doc.page_count

\* one iteration of the loop over the documents
pages_to_analyze(d, doc) ==
    last_page(d.end_page[1], doc) - Get(d, "start_page", 1) + 1

\* the accumulation of total_num_pages over the documents
RECURSIVE total_num_pages(_, _)
total_num_pages(d, docs) ==
    IF docs = <<>> THEN 0
    ELSE pages_to_analyze(d, Head(docs)) + total_num_pages(d, Tail(docs))

\* self.data.get("end_page") is None when the key is absent, and the
\* comparison None <= doc.page_count of the first iteration raises TypeError
calculate_cost_faults(d, docs) == docs # <<>> /\ d.end_page = None

calculate_cost(d, docs) ==
    IF calculate_cost_faults(d, docs)
    THEN [fault |-> TRUE, value |-> 0]
    ELSE [fault |-> FALSE, value |-> total_num_pages(d, docs) * CreditsPerPage]

(* ------------------- get_table_data, convert_to_csv -------------------- *)

cell_info(cell) ==
    [row_index |-> cell.row_index, column_index |-> cell.column_index,
     content |-> cell.text]

table_info(table) ==
    [page_number |-> table.page_number,
     cells |-> [k \in 1..Len(table.cells) |-> cell_info(table.cells[k])]]

get_table_data(result) == [t \in 1..Len(result) |-> table_info(result[t])]

csv_row(page, cell) ==
    <<page, cell.row_index, cell.column_index, cell.content>>

\* the cells of a table taken last to first
table_rows_reversed(info) ==
    [k \in 1..Len(info.cells) |->
        csv_row(info.page_number, info.cells[Len(info.cells) + 1 - k])]

\* the inner loop: the rows of one table, in cell order
table_rows(info) ==
    [k \in 1..Len(info.cells) |-> csv_row(info.page_number, info.cells[k])]

\* the outer loop: csv_data.append in table order
RECURSIVE convert_to_csv(_)
convert_to_csv(td) ==
    IF td = <<>> THEN <<>>
    ELSE table_rows(Head(td)) \o convert_to_csv(Tail(td))

(* ------------------------------ csv file -------------------------------- *)

Header == <<"Page Number", "Row Index", "Column Index", "Content">>

\* csv.writer.writerow: every field is written as its str()
writerow(row) == <<ToString(row[1]), ToString(row[2]), ToString(row[3]), row[4]>>

writerows(rows) == [k \in 1..Len(rows) |-> writerow(rows[k])]

\* the header written by every run
csv_append_with_header(file, rows) == <<Header>> \o writerows(rows)

\* open(path, "a"): the position starts at the end of what the file holds,
\* so tell() == 0 exactly when the file is empty or new
csv_append(file, rows) ==
    (IF Len(file) = 0 THEN <<Header>> ELSE <<>>) \o writerows(rows)

csv_write(file, td) == file \o csv_append(file, convert_to_csv(td))

\* open(path, "w"): the file holds what this run dumps, nothing else
json_write(file, td) == Some(td)

(* ----------------------------- the analyzer ----------------------------- *)

\* document.get_large_image_url(page_number)
get_large_image_url(doc, page) == <<doc.id, page>>

\* The analyzer is an opaque collaborator.  The text of a cell it returns
\* names the image it was read from, so that a record can be traced to the
\* call that produced it.
CellOf(url, t, k) ==
    [row_index |-> 0, column_index |-> k - 1,
     text |-> url[1] \o ToString(url[2]) \o "." \o ToString(t) \o ToString(k)]

TableOf(url, t, n) ==
    [page_number |-> url[2], cells |-> [k \in 1..n |-> CellOf(url, t, k)]]

\* what poller.result() may return for an image: no table, or two tables
AnalyzerResults(url) == {<<>>, <<TableOf(url, 1, 2), TableOf(url, 2, 1)>>}

(* -------------------------------- main ---------------------------------- *)

MsgNoDocuments == "It looks like no documents were selected."
MsgNoOrganization == "No organization to charge."
MsgInsufficient == "You do not have sufficient AI credits"
MsgEndBeforeStart == "The end page you provided is smaller than the start page"
MsgStartBelowOne == "Your start page is less than 1"

\* the three reads of self.data that open main()
output_format == Get(data, "output_format", "json")
start_page == Get(data, "start_page", 1)
end_page == Get(data, "end_page", 1)

\* self.get_documents()
get_documents == documents

\* charge_credits returns, or raises ValueError or APIError
ChargeOutcomes == {"ok", "ValueError", "APIError"}

\* the second except clause falling through to return True
validate_returns_on_api_error(outcome) ==
    IF outcome = "ValueError" THEN FALSE ELSE TRUE

\* validate(): False from either except clause, True otherwise
validate_returns(outcome) ==
    IF outcome = "ValueError" THEN FALSE
    ELSE IF outcome = "APIError" THEN FALSE
    ELSE TRUE

\* the bound without the clamp to doc.page_count
outer_bound_unclamped(doc) == end_page + 1

\* the bound of range(start_page, outer_bound) for one document
outer_bound(doc) ==
    IF end_page > doc.page_count THEN doc.page_count + 1 ELSE end_page + 1

Begin(in, at) ==
    /\ data = in.data
    /\ documents = in.documents
    /\ document_count = IF in.selected THEN Some(Len(in.documents)) ELSE None
    /\ org_id = in.org_id
    /\ pc = at
    /\ message = ""
    /\ fault = ""
    /\ charges = <<>>
    /\ calls = <<>>
    /\ docIdx = 0
    /\ page_number = 0
    /\ table_data = <<>>
    /\ cost = [fault |-> FALSE, value |-> 0]
    /\ csv_data = <<>>

\* a fresh working directory
NoFiles ==
    /\ jsonFiles = [id \in DocIds |-> None]
    /\ csvFiles = [id \in DocIds |-> <<>>]
    /\ csvLog = [id \in DocIds |-> <<>>]

\* a selection that holds nothing has no documents to list
Selections == {in \in RunInputs : ~in.selected => in.documents = <<>>}

Init ==
    /\ \E in \in Selections : Begin(in, "start")
    /\ NoFiles
    /\ run = 1

\* sys.exit(0) without set_message
Exit_without_message(msg) ==
    /\ message' = message
    /\ pc' = "exit"

\* self.set_message(msg); sys.exit(0)
Exit(msg) ==
    /\ message' = msg
    /\ pc' = "exit"

\* validate(), first check: sys.exit(0) when nothing is selected
ValidateNoDocuments ==
    /\ pc = "start"
    /\ document_count = None
    /\ Exit(MsgNoDocuments)
    /\ UNCHANGED <<data, documents, document_count, org_id, fault, charges,
                   calls, docIdx, page_number, table_data, jsonFiles, csvFiles,
                   csvLog, run, cost, csv_data>>

\* validate(), second check: sys.exit(0) when there is no organization
ValidateNoOrganization ==
    /\ pc = "start"
    /\ document_count # None
    /\ ~org_id
    /\ Exit(MsgNoOrganization)
    /\ UNCHANGED <<data, documents, document_count, org_id, fault, charges,
                   calls, docIdx, page_number, table_data, jsonFiles, csvFiles,
                   csvLog, run, cost, csv_data>>

\* validate(): calculate_cost raises TypeError, which nothing catches
ValidateFault ==
    /\ pc = "start"
    /\ document_count # None
    /\ org_id
    /\ calculate_cost(data, get_documents).fault
    /\ fault' = "TypeError"
    /\ pc' = "fault"
    /\ UNCHANGED <<data, documents, document_count, org_id, message, charges,
                   calls, docIdx, page_number, table_data, jsonFiles, csvFiles,
                   csvLog, run, cost, csv_data>>

\* validate(): the cost is computed and charged; main() exits on False
ValidateCharge ==
    /\ pc = "start"
    /\ document_count # None
    /\ org_id
    /\ ~calculate_cost(data, get_documents).fault
    /\ cost' = calculate_cost(data, get_documents)
    /\ \E outcome \in ChargeOutcomes :
          /\ charges' = Append(charges, [amount |-> cost'.value,
                                         outcome |-> outcome])
          /\ IF validate_returns(outcome)
             THEN pc' = "range" /\ UNCHANGED message
             ELSE Exit(MsgInsufficient)
    /\ UNCHANGED <<data, documents, document_count, org_id, fault, calls,
                   docIdx, page_number, table_data, jsonFiles, csvFiles,
                   csvLog, run, csv_data>>

\* main(): the two checks of the page range
RangeCheck ==
    /\ pc = "range"
    /\ IF end_page < start_page THEN Exit(MsgEndBeforeStart)
       ELSE IF start_page < 1 THEN Exit(MsgStartBelowOne)
       ELSE pc' = "documents" /\ UNCHANGED message
    /\ UNCHANGED <<data, documents, document_count, org_id, fault, charges,
                   calls, docIdx, page_number, table_data, jsonFiles, csvFiles,
                   csvLog, run, cost, csv_data>>

\* for document in self.get_documents(): the next document, or the end
NextDocument ==
    /\ pc = "documents"
    /\ IF docIdx < Len(get_documents)
       THEN /\ docIdx' = docIdx + 1
            /\ table_data' = <<>>
            /\ page_number' = start_page
            /\ pc' = "pages"
       ELSE /\ pc' = "done"
            /\ UNCHANGED <<docIdx, table_data, page_number>>
    /\ UNCHANGED <<data, documents, document_count, org_id, message, fault,
                   charges, calls, jsonFiles, csvFiles, csvLog, run, cost,
                   csv_data>>

Call(url, ok, result) ==
    [doc |-> docIdx, url |-> url, ok |-> ok, result |-> result]

\* one iteration of the page loop whose analyzer call returns a result
AnalyzePage ==
    /\ pc = "pages"
    /\ page_number < outer_bound(get_documents[docIdx])
    /\ LET url == get_large_image_url(get_documents[docIdx], page_number)
       IN \E result \in AnalyzerResults(url) :
             /\ calls' = Append(calls, Call(url, TRUE, result))
             /\ table_data' = table_data \o get_table_data(result)
    /\ page_number' = page_number + 1
    /\ UNCHANGED <<data, documents, document_count, org_id, pc, message,
                   fault, charges, docIdx, jsonFiles, csvFiles, csvLog, run,
                   cost, csv_data>>

\* the exception caught and the loop moving on to the next document
analyzer_raises_caught == [pc |-> "documents", fault |-> ""]

\* what an analyzer exception does to the run: nothing catches it
analyzer_raises == [pc |-> "fault", fault |-> "AnalyzerError"]

\* one iteration of the page loop whose analyzer call raises
AnalyzeFails ==
    /\ pc = "pages"
    /\ page_number < outer_bound(get_documents[docIdx])
    /\ LET url == get_large_image_url(get_documents[docIdx], page_number)
       IN calls' = Append(calls, Call(url, FALSE, <<>>))
    /\ pc' = analyzer_raises.pc
    /\ fault' = analyzer_raises.fault
    /\ UNCHANGED <<data, documents, document_count, org_id, message, charges,
                   docIdx, page_number, table_data, jsonFiles, csvFiles,
                   csvLog, run, cost, csv_data>>

\* after the page loop: the document's file is written
WriteOutput ==
    /\ pc = "pages"
    /\ page_number >= outer_bound(get_documents[docIdx])
    /\ LET id == get_documents[docIdx].id
       IN /\ jsonFiles' =
                IF output_format = "json"
                THEN [jsonFiles EXCEPT ![id] = json_write(@, table_data)]
                ELSE jsonFiles
          /\ csvFiles' =
                IF output_format = "csv"
                THEN [csvFiles EXCEPT ![id] = csv_write(@, table_data)]
                ELSE csvFiles
          /\ csv_data' =
                IF output_format = "csv" THEN convert_to_csv(table_data)
                ELSE csv_data
          /\ csvLog' =
                IF output_format = "csv"
                THEN [csvLog EXCEPT ![id] = @ \o writerows(convert_to_csv(table_data))]
                ELSE csvLog
    /\ pc' = "documents"
    /\ UNCHANGED <<data, documents, document_count, org_id, message, fault,
                   charges, calls, docIdx, page_number, table_data, run, cost>>

Next ==
    \/ ValidateNoDocuments
    \/ ValidateNoOrganization
    \/ ValidateFault
    \/ ValidateCharge
    \/ RangeCheck
    \/ NextDocument
    \/ AnalyzePage
    \/ AnalyzeFails
    \/ WriteOutput

Spec == Init /\ [][Next]_vars

(* ------------------------- repeated runs -------------------------------- *)

\* The add-on is run again in the same working directory, on a selection of
\* the document "a": the files of earlier runs are still there.
RepeatConfigs ==
    [start_page : Opt({0}), end_page : Opt({0, 2}),
     output_format : {Some(f) : f \in Formats}]

RepeatInputs ==
    {in \in [data : RepeatConfigs,
             documents : SeqsUpTo([id : {"a"}, page_count : {2}], MaxDocs),
             selected : BOOLEAN,
             org_id : BOOLEAN] : ~in.selected => in.documents = <<>>}

InitRuns ==
    /\ \E in \in RepeatInputs : Begin(in, "start")
    /\ NoFiles
    /\ run = 1

\* a new process: everything but the files starts afresh
StartRun ==
    /\ pc \in {"done", "exit", "fault"}
    /\ run < MaxRuns
    /\ run' = run + 1
    /\ \E in \in RepeatInputs :
          /\ data' = in.data
          /\ documents' = in.documents
          /\ document_count' =
                IF in.selected THEN Some(Len(in.documents)) ELSE None
          /\ org_id' = in.org_id
    /\ pc' = "start"
    /\ message' = ""
    /\ fault' = ""
    /\ charges' = <<>>
    /\ calls' = <<>>
    /\ docIdx' = 0
    /\ page_number' = 0
    /\ table_data' = <<>>
    /\ cost' = [fault |-> FALSE, value |-> 0]
    /\ csv_data' = <<>>
    /\ UNCHANGED <<jsonFiles, csvFiles, csvLog>>

NextRuns ==
    \/ ValidateNoDocuments
    \/ ValidateNoOrganization
    \/ ValidateFault
    \/ ValidateCharge
    \/ RangeCheck
    \/ NextDocument
    \/ AnalyzePage
    \/ AnalyzeFails
    \/ WriteOutput
    \/ StartRun

SpecRuns == InitRuns /\ [][NextRuns]_vars

(* ---------------------- calculate_cost on its own ----------------------- *)

InitCost ==
    /\ \E in \in Selections : Begin(in, "calculate_cost")
    /\ NoFiles
    /\ run = 1

\* a call of calculate_cost(self.get_documents()) that returns
CostReturns ==
    /\ pc = "calculate_cost"
    /\ ~calculate_cost_faults(data, get_documents)
    /\ cost' = calculate_cost(data, get_documents)
    /\ pc' = "returned"
    /\ UNCHANGED <<data, documents, document_count, org_id, message, fault,
                   charges, calls, docIdx, page_number, table_data, jsonFiles,
                   csvFiles, csvLog, run, csv_data>>

\* a call of calculate_cost(self.get_documents()) that raises
CostRaises ==
    /\ pc = "calculate_cost"
    /\ calculate_cost_faults(data, get_documents)
    /\ cost' = calculate_cost(data, get_documents)
    /\ fault' = "TypeError"
    /\ pc' = "fault"
    /\ UNCHANGED <<data, documents, document_count, org_id, message, charges,
                   calls, docIdx, page_number, table_data, jsonFiles,
                   csvFiles, csvLog, run, csv_data>>

NextCost == CostReturns \/ CostRaises

SpecCost == InitCost /\ [][NextCost]_vars

(* ---------------------- convert_to_csv on its own ----------------------- *)

\* cells and tables as get_table_data builds them
CellInfos ==
    {[row_index |-> 0, column_index |-> 0, content |-> "x"],
     [row_index |-> 0, column_index |-> 1, content |-> "y"],
     [row_index |-> 1, column_index |-> 0, content |-> "x"]}

TableInfos == [page_number : {1, 2}, cells : SeqsUpTo(CellInfos, MaxCells)]

InitConvert ==
    /\ table_data \in SeqsUpTo(TableInfos, MaxTables)
    /\ data = [start_page |-> None, end_page |-> None,
               output_format |-> Some("csv")]
    /\ documents = <<>>
    /\ document_count = Some(0)
    /\ org_id = TRUE
    /\ pc = "convert_to_csv"
    /\ message = ""
    /\ fault = ""
    /\ charges = <<>>
    /\ calls = <<>>
    /\ docIdx = 0
    /\ page_number = 0
    /\ cost = [fault |-> FALSE, value |-> 0]
    /\ csv_data = <<>>
    /\ NoFiles
    /\ run = 1

\* a call of convert_to_csv(table_data)
ConvertReturns ==
    /\ pc = "convert_to_csv"
    /\ csv_data' = convert_to_csv(table_data)
    /\ pc' = "returned"
    /\ UNCHANGED <<data, documents, document_count, org_id, message, fault,
                   charges, calls, docIdx, page_number, table_data, jsonFiles,
                   csvFiles, csvLog, run, cost>>

NextConvert == ConvertReturns

SpecConvert == InitConvert /\ [][NextConvert]_vars

(* ------------------------------ claims ---------------------------------- *)

Max(a, b) == IF a >= b THEN a ELSE b

AnalyzerFailed == pc = "fault" /\ fault = "AnalyzerError"

\* the records the analyzer returned for the pages of document i of the run
RECURSIVE RecordsIn(_, _)
RecordsIn(cs, i) ==
    IF cs = <<>> THEN <<>>
    ELSE (IF Head(cs).doc = i /\ Head(cs).ok
          THEN get_table_data(Head(cs).result) ELSE <<>>)
         \o RecordsIn(Tail(cs), i)

\* the pages start_page .. min(end_page, page_count) of document i, in order
PagesOf(i) ==
    LET last == Min(end_page, documents[i].page_count)
    IN [k \in 1..Max(0, last - start_page + 1) |->
           <<i, <<documents[i].id, start_page + k - 1>>>>]

\* the calls a run makes for its documents 1..n, in order
CallsUpTo(n) == Flatten([i \in 1..n |-> PagesOf(i)])

CallsMade == [k \in 1..Len(calls) |-> <<calls[k].doc, calls[k].url>>]

\* C1: when end_page < start_page, no state of the run has credits charged
\* or a page submitted for analysis.
C1_InvertedRangeChargesNothing ==
    end_page < start_page => charges = <<>> /\ calls = <<>>

\* C2: calculate_cost returns 7 times the sum over the documents of
\* min(end_page, page_count) - start_page + 1, and the pages counted for a
\* document never exceed page_count - start_page + 1.
C2_CostIsSevenTimesClampedPages ==
    pc = "returned" =>
        LET s == Get(data, "start_page", 1)
            e == data.end_page[1]
            n == Len(documents)
        IN /\ ~cost.fault
           /\ cost.value =
                 7 * SumSeq([i \in 1..n |->
                                Min(e, documents[i].page_count) - s + 1])
           /\ \A i \in 1..n :
                 pages_to_analyze(data, documents[i])
                    <= documents[i].page_count - s + 1

C2_Witness ==
    /\ pc = "returned"
    /\ Len(documents) = 2
    /\ data.end_page # None
    /\ data.end_page[1] > documents[1].page_count
    /\ data.end_page[1] <= documents[2].page_count
    /\ cost.value > 0

\* C3: a run with end_page absent behaves as a run configured with
\* end_page = 1: calculate_cost does not fault and computes the cost of the
\* range that ends at page 1.
C3_AbsentEndPageDefaultsToOne ==
    (data.end_page = None /\ pc # "start" /\ document_count # None /\ org_id)
        => /\ fault # "TypeError"
           /\ cost = calculate_cost([data EXCEPT !.end_page = Some(1)],
                                    documents)

\* C4: charge_credits is called at most once, with the amount
\* calculate_cost computes over the whole document set, and no page is
\* submitted for analysis unless that call has returned successfully.
C4_SingleChargeBeforeAnalysis ==
    /\ Len(charges) <= 1
    /\ \A i \in 1..Len(charges) :
          charges[i].amount = calculate_cost(data, documents).value
    /\ calls # <<>> => Len(charges) = 1 /\ charges[1].outcome = "ok"

C4_Witness ==
    /\ Len(calls) >= 2
    /\ Len(charges) = 1
    /\ charges[1].outcome = "ok"
    /\ charges[1].amount > 0

FilesUntouched ==
    /\ \A id \in DocIds : jsonFiles[id] = None
    /\ \A id \in DocIds : csvFiles[id] = <<>>

\* C5: with no documents selected, no organization, or a charge that
\* reports insufficient funds or an API fault, the run ends with a message,
\* no analyzer call and no output file; in the first two cases
\* charge_credits is never called.
C5_ErrorsEndTheRun ==
    /\ (pc # "start" /\ (document_count = None \/ ~org_id))
          => /\ pc = "exit"
             /\ message \in {MsgNoDocuments, MsgNoOrganization}
             /\ charges = <<>>
             /\ calls = <<>>
             /\ FilesUntouched
    /\ (charges # <<>> /\ charges[1].outcome \in {"ValueError", "APIError"})
          => /\ pc = "exit"
             /\ message = MsgInsufficient
             /\ calls = <<>>
             /\ FilesUntouched

C5_Witness ==
    /\ pc = "exit"
    /\ charges # <<>>
    /\ charges[1].outcome = "APIError"
    /\ charges[1].amount > 0

\* C6: after any number of runs, a csv file that exists holds exactly one
\* header row, as its first row, followed by the data rows of every write
\* in the order the runs made them.
C6_CsvIsAppendOnly ==
    \A id \in DocIds :
        /\ csvFiles[id] # <<>> \/ csvLog[id] # <<>>
              => csvFiles[id] = <<Header>> \o csvLog[id]
        /\ Cardinality({k \in 1..Len(csvFiles[id]) : csvFiles[id][k] = Header})
              = IF csvFiles[id] = <<>> THEN 0 ELSE 1

C6_Witness ==
    /\ run = 2
    /\ pc = "done"
    /\ output_format = "csv"
    /\ Len(documents) = 2
    /\ Len(csv_data) > 0
    /\ Len(csvFiles["a"]) > 1 + 2 * Len(csv_data)

Offset(td, t) == SumSeq([u \in 1..(t - 1) |-> Len(td[u].cells)])

\* C7: convert_to_csv returns one row [page_number, row_index,
\* column_index, content] per cell, the rows of an earlier table before
\* those of a later one and, within a table, in the cell order of the input.
C7_OneRowPerCellInOrder ==
    pc = "returned" =>
        /\ Len(csv_data) = SumSeq([t \in 1..Len(table_data) |->
                                      Len(table_data[t].cells)])
        /\ \A t \in 1..Len(table_data) :
              \A k \in 1..Len(table_data[t].cells) :
                 csv_data[Offset(table_data, t) + k] =
                    <<table_data[t].page_number,
                      table_data[t].cells[k].row_index,
                      table_data[t].cells[k].column_index,
                      table_data[t].cells[k].content>>

C7_Witness ==
    /\ pc = "returned"
    /\ Len(table_data) = 2
    /\ Len(table_data[1].cells) = 2
    /\ Len(table_data[2].cells) = 2
    /\ table_data[1].cells[1] # table_data[1].cells[2]
    /\ table_data[1] # table_data[2]
    /\ Len(csv_data) = 4

\* C8: past the range checks, the analyzer is called once for each page
\* start_page .. min(end_page, page_count) of each document, documents in
\* listing order and pages in increasing order, and for no other page; what
\* is written for a document are the records returned for its own pages.
C8_PagesInOrderPerDocument ==
    /\ IsPrefix(CallsMade, CallsUpTo(Len(documents)))
    /\ pc = "pages" => IsPrefix(CallsUpTo(docIdx - 1), CallsMade)
    /\ pc = "pages" => table_data = RecordsIn(calls, docIdx)
    /\ pc = "documents" => CallsMade = CallsUpTo(docIdx)
    /\ pc = "done" => CallsMade = CallsUpTo(Len(documents))
    /\ (pc = "documents" /\ docIdx >= 1) =>
          LET id == documents[docIdx].id
              rows == writerows(convert_to_csv(RecordsIn(calls, docIdx)))
              file == csvFiles[id]
          IN /\ output_format = "json"
                   => jsonFiles[id] = Some(RecordsIn(calls, docIdx))
             /\ output_format = "csv"
                   => /\ Len(file) >= Len(rows) + 1
                      /\ SubSeq(file, Len(file) - Len(rows) + 1, Len(file))
                            = rows

C8_Witness ==
    /\ pc = "done"
    /\ Len(documents) = 2
    /\ documents[1].page_count < end_page
    /\ start_page < end_page
    /\ Len(calls) = 3
    /\ calls[3].result # <<>>

\* C9: in a run that completes, the credits charged are 7 times the number
\* of analyzer calls made, and are not negative.
C9_ChargeMatchesAnalyzerCalls ==
    pc = "done" =>
        /\ charges[1].amount = 7 * Len(calls)
        /\ charges[1].amount >= 0

\* C10: an analyzer failure on a page of a document is not retried: the
\* failed call is the last call of the run, nothing more can happen in the
\* run, and the step that fails leaves every output file as it was.
C10_AnalyzerFailureIsTerminal ==
    /\ [](/\ \A k \in 1..Len(calls) :
               ~calls[k].ok => k = Len(calls) /\ AnalyzerFailed
          /\ AnalyzerFailed =>
               /\ calls # <<>> /\ ~calls[Len(calls)].ok
               /\ ~ENABLED AnalyzePage
               /\ ~ENABLED AnalyzeFails
               /\ ~ENABLED WriteOutput
               /\ ~ENABLED NextDocument)
    /\ [][AnalyzerFailed' => UNCHANGED <<jsonFiles, csvFiles>>]_vars

C10_Witness ==
    /\ AnalyzerFailed
    /\ docIdx = 2
    /\ Len(calls) >= 3
    /\ calls[1].result # <<>>
    /\ page_number > start_page
    /\ table_data # <<>>
    /\ \E id \in DocIds : jsonFiles[id] # None

====
